---- MODULE Spec2Model ----
(***************************************************************************)
(* Model of pyvlx's Interface (src/pyvlx/interface.py) and of the two      *)
(* PyVLX facade methods that drive it (src/pyvlx/pyvlx.py).                *)
(*                                                                         *)
(* Each thread runs Python frames of api_call, refresh_token and           *)
(* disconnect on a call stack; self.token is shared.  The gateway is the   *)
(* environment: it answers every HTTP POST with a transport failure or     *)
(* with a response text.                                                   *)
(***************************************************************************)
EXTENDS Integers, Sequences, FiniteSets, TLC

(***************************************************************************)
(* Bounds                                                                  *)
(***************************************************************************)
\* longest garbage prefix the gateway puts in front of a response
MaxGarbage == 1
\* largest number of codes in an errors list handed to evaluate_response
MaxErrors == 2
\* longest text handed to fix_response on its own
MaxText == 4

(***************************************************************************)
(* JSON / Python values.  t is the type, n the number (int value, 1/0 for  *)
(* a bool, number of keys of an object), s the string, l the elements of   *)
(* a list.  "absent" stands for a key that is not in the dict.             *)
(***************************************************************************)
Elem(t, n, s) == [t |-> t, n |-> n, s |-> s]
JV(t, n, s, l) == [t |-> t, n |-> n, s |-> s, l |-> l]
Absent == JV("absent", 0, "", <<>>)
None == JV("null", 0, "", <<>>)
JBool(b) == JV("bool", IF b THEN 1 ELSE 0, "", <<>>)
JInt(n) == JV("int", n, "", <<>>)
JStr(s) == JV("str", 0, s, <<>>)
JList(l) == JV("list", 0, "", l)
JObj(n) == JV("obj", n, "", <<>>)
EInt(n) == Elem("int", n, "")
EStr(s) == Elem("str", 0, s)
EBool(b) == Elem("bool", IF b THEN 1 ELSE 0, "")

\* Python truth value of v (the operand of `not v` / `if v`)
Truthy(v) ==
    CASE v.t = "absent" -> FALSE
      [] v.t = "null" -> FALSE
      [] v.t = "bool" -> v.n = 1
      [] v.t = "int" -> v.n # 0
      [] v.t = "str" -> v.s # ""
      [] v.t = "list" -> v.l # <<>>
      [] v.t = "obj" -> v.n # 0

\* isinstance(v, list)
IsList(v) == v.t = "list"

\* isinstance(e, int): bool is a subclass of int in Python
IsInt(e) == e.t \in {"int", "bool"}

\* a response envelope: the keys of the dict the code looks at
Envelope(result, errors, token) ==
    [result |-> result, errors |-> errors, token |-> token]

(***************************************************************************)
(* Outcome of a Python call: a returned envelope, a returned None, or a    *)
(* raised exception with its class, message and (InvalidToken) code.       *)
(***************************************************************************)
NoEnv == Envelope(Absent, Absent, Absent)
NoRet == [kind |-> "none", type |-> "", msg |-> "", code |-> 0, env |-> NoEnv]
Value(env) == [kind |-> "value", type |-> "", msg |-> "", code |-> 0, env |-> env]
Unit == [kind |-> "unit", type |-> "", msg |-> "", code |-> 0, env |-> NoEnv]
Raise(type, msg, code) ==
    [kind |-> "exc", type |-> type, msg |-> msg, code |-> code, env |-> NoEnv]

MsgTimeout == "Request timeout when talking to VELUX API"
MsgHttp == "HTTP error when talking to VELUX API"
MsgOs == "OS error when talking to VELUX API"
MsgNoToken == "no element token found in response"
MsgNoResult == "no element result  found in response"
MsgFailed == "Request failed"
MsgErrors == "Could not evaluate errors"
MsgUnknown == "Unknown error code"
TransportMsgs == {MsgTimeout, MsgHttp, MsgOs}

(***************************************************************************)
(* evaluate_errors / evaluate_response                                     *)
(***************************************************************************)
AuthCodes == {402, 403, 405, 406}

\* the last code instead of the first
FirstError_Last(errors) == errors.l[Len(errors.l)]

\* json_response['errors'][0]
FirstError(errors) == errors.l[1]

\* the isinstance(..., int) test of line 109 is missing
evaluate_errors_NoIntTest(env) ==
    IF \/ env.errors.t = "absent"
       \/ ~IsList(env.errors)
       \/ ~Truthy(env.errors)
    THEN Raise("PyVLXException", MsgErrors, 0)
    ELSE IF FirstError(env.errors).n \in AuthCodes
         THEN Raise("InvalidToken", "", FirstError(env.errors).n)
         ELSE Raise("PyVLXException", MsgUnknown, FirstError(env.errors).n)

\* a Python int as the code of an exception: True is 1, False is 0
evaluate_errors(env) ==
    IF \/ env.errors.t = "absent"
       \/ ~IsList(env.errors)
       \/ ~Truthy(env.errors)
       \/ ~IsInt(FirstError(env.errors))
    THEN Raise("PyVLXException", MsgErrors, 0)
    ELSE IF FirstError(env.errors).n \in AuthCodes
         THEN Raise("InvalidToken", "", FirstError(env.errors).n)
         ELSE Raise("PyVLXException", MsgUnknown, FirstError(env.errors).n)

\* the test of line 96 without its second half
evaluate_response_ErrorsPresent(env) ==
    IF env.errors.t # "absent"
    THEN evaluate_errors(env)
    ELSE IF env.result.t = "absent"
         THEN Raise("PyVLXException", MsgNoResult, 0)
         ELSE IF ~Truthy(env.result)
              THEN Raise("PyVLXException", MsgFailed, 0)
              ELSE Unit

evaluate_response(env) ==
    IF env.errors.t # "absent" /\ Truthy(env.errors)
    THEN evaluate_errors(env)
    ELSE IF env.result.t = "absent"
         THEN Raise("PyVLXException", MsgNoResult, 0)
         ELSE IF ~Truthy(env.result)
              THEN Raise("PyVLXException", MsgFailed, 0)
              ELSE Unit

(***************************************************************************)
(* Response text.  A text is a sequence of tokens: "{" and "}", garbage    *)
(* characters, and one token for the members of an object.                 *)
(***************************************************************************)
\* the members a gateway object can carry, by the token that stands for them
Members ==
    [m \in {"result:true", "result:false", "errors:[403]", "errors:[999]",
            "token:t1,result:true", "token:t2,result:true",
            "token:null,result:true", "token:'',result:true"} |->
        CASE m = "result:true" -> Envelope(JBool(TRUE), Absent, Absent)
          [] m = "result:false" -> Envelope(JBool(FALSE), Absent, Absent)
          [] m = "errors:[403]" -> Envelope(Absent, JList(<<EInt(403)>>), Absent)
          [] m = "errors:[999]" -> Envelope(Absent, JList(<<EInt(999)>>), Absent)
          [] m = "token:t1,result:true" -> Envelope(JBool(TRUE), Absent, JStr("t1"))
          [] m = "token:t2,result:true" -> Envelope(JBool(TRUE), Absent, JStr("t2"))
          [] m = "token:null,result:true" -> Envelope(JBool(TRUE), Absent, None)
          [] m = "token:'',result:true" -> Envelope(JBool(TRUE), Absent, JStr(""))]

\* str.find: the 0-based index of the first c in text, -1 when there is none
Find(text, c) ==
    IF \E i \in 1..Len(text) : text[i] = c
    THEN (CHOOSE i \in 1..Len(text) :
              text[i] = c /\ \A j \in 1..(i - 1) : text[j] # c) - 1
    ELSE -1

\* response[index + 1:]
SliceFrom_OffByOne(text, index) == SubSeq(text, index + 2, Len(text))

\* response[index:]
SliceFrom(text, index) == SubSeq(text, index + 1, Len(text))

FixIndexTest(index) == index > 0

fix_response(response) ==
    LET index == Find(response, "{")
    IN  IF FixIndexTest(index) THEN SliceFrom(response, index) ELSE response

\* json.loads on a text of the model: an object with known members, the
\* empty object, or a JSONDecodeError (a ValueError)
json_loads(text) ==
    IF Len(text) = 3 /\ text[1] = "{" /\ text[3] = "}" /\ text[2] \in DOMAIN Members
    THEN Value(Members[text[2]])
    ELSE IF text = <<"{", "}">>
         THEN Value(NoEnv)
         ELSE Raise("JSONDecodeError", "", 0)

(***************************************************************************)
(* The gateway: what one requests.post can end in                          *)
(***************************************************************************)
\* requests' exceptions derive from IOError, which is OSError
OSErrorClasses == {"requests.Timeout", "requests.ConnectionError", "OSError"}
TransportFailures == OSErrorClasses

GarbageChars == {")", "}", "{"}
RECURSIVE SeqsUpTo(_, _)
SeqsUpTo(S, n) ==
    IF n = 0 THEN {<<>>}
    ELSE LET shorter == SeqsUpTo(S, n - 1)
         IN  shorter \cup {Append(q, x) : q \in shorter, x \in S}

Documents ==
    {<<"{", m, "}">> : m \in DOMAIN Members} \cup {<<"{", "}">>, <<"n", "o">>, <<>>}
ResponseTexts == {g \o d : g \in SeqsUpTo(GarbageChars, MaxGarbage), d \in Documents}

\* fail = "none": the POST returned text
Outcome(fail, text) == [fail |-> fail, text |-> text]
GatewayOutcomes ==
    {Outcome(f, <<>>) : f \in TransportFailures}
        \cup {Outcome("none", x) : x \in ResponseTexts}

\* the response is evaluated before it is returned
do_http_request_impl_Evaluates(o) ==
    IF o.fail # "none"
    THEN Raise(o.fail, "", 0)
    ELSE LET r == json_loads(fix_response(o.text))
         IN  IF r.kind = "value" /\ evaluate_response(r.env).kind = "exc"
             THEN evaluate_response(r.env)
             ELSE r

\* _do_http_request_impl: the POST, then json.loads(self.fix_response(r.text))
do_http_request_impl(o) ==
    IF o.fail # "none"
    THEN Raise(o.fail, "", 0)
    ELSE json_loads(fix_response(o.text))

\* the except OSError clause is missing
do_http_request_NoOSError(o) ==
    LET r == do_http_request_impl(o)
    IN  IF r.kind # "exc" THEN r
        ELSE IF r.type = "asyncio.TimeoutError"
             THEN Raise("PyVLXException", MsgTimeout, 0)
        ELSE IF r.type = "aiohttp.ClientError"
             THEN Raise("PyVLXException", MsgHttp, 0)
        ELSE r

\* the except clauses of _do_http_request
do_http_request(o) ==
    LET r == do_http_request_impl(o)
    IN  IF r.kind # "exc" THEN r
        ELSE IF r.type = "asyncio.TimeoutError"
             THEN Raise("PyVLXException", MsgTimeout, 0)
        ELSE IF r.type = "aiohttp.ClientError"
             THEN Raise("PyVLXException", MsgHttp, 0)
        ELSE IF r.type \in OSErrorClasses
             THEN Raise("PyVLXException", MsgOs, 0)
        ELSE r

(***************************************************************************)
(* Request construction                                                    *)
(***************************************************************************)
Host == "klf200"

create_api_url(host, verb) == <<"http://", host, "/api/v1/", verb>>

\* params is "None" or the rendering of a dict
create_body(action, params) ==
    IF params # "None" THEN <<action, params>> ELSE <<action>>

\* the Authorization header is added whenever a token is held, asked for or not
create_headers_WhenHeld(add_authorization_token, tok) ==
    IF tok.t # "str"
    THEN [err |-> FALSE, ct |-> "application/json", bearer |-> FALSE, tok |-> ""]
    ELSE [err |-> FALSE, ct |-> "application/json", bearer |-> TRUE, tok |-> tok.s]

\* 'Bearer ' + token is a TypeError unless token is a str
create_headers(add_authorization_token, tok) ==
    IF ~add_authorization_token
    THEN [err |-> FALSE, ct |-> "application/json", bearer |-> FALSE, tok |-> ""]
    ELSE IF tok.t # "str"
         THEN [err |-> TRUE, ct |-> "application/json", bearer |-> FALSE, tok |-> ""]
         ELSE [err |-> FALSE, ct |-> "application/json", bearer |-> TRUE, tok |-> tok.s]
NoHeaders == [err |-> FALSE, ct |-> "", bearer |-> FALSE, tok |-> ""]

(***************************************************************************)
(* State                                                                   *)
(***************************************************************************)
Threads == {1, 2}
\* the threads that run in the sequential specification
SeqThreads == {1}

VARIABLES
    token,      \* self.token
    stack,      \* per thread: the Python frames, innermost last
    ret,        \* per thread: the value or exception the last finished frame left
    log,        \* per thread: the HTTP exchanges of the current top-level call
    call,       \* per thread: the current top-level call and the token it found
    issued,     \* the token values login responses have carried so far
    evalIn,     \* the envelope handed to evaluate_response
    evalOut,    \* what evaluate_response made of it
    evalFn,     \* which of evaluate_response / evaluate_errors was called
    fix         \* a text handed to fix_response and the texts it returned

vars == <<token, stack, ret, log, call, issued, evalIn, evalOut, evalFn, fix>>

\* the calls the device and scene catalogs make
Targets ==
    {[verb |-> "products", action |-> "get", params |-> "None"],
     [verb |-> "scenes", action |-> "run", params |-> "{id}"]}

Frame(fn, pc, verb, action, params, auth, retry, tok0) ==
    [fn |-> fn, pc |-> pc, verb |-> verb, action |-> action, params |-> params,
     auth |-> auth, retry |-> retry, tok0 |-> tok0, hdr |-> NoHeaders]

\* def api_call(self, verb, action, params=None, add_authorization_token=True, retry=False)
ApiFrame(verb, action, params, auth, retry) ==
    Frame("api_call", "L22", verb, action, params, auth, retry, token)
RefreshFrame == Frame("refresh_token", "L60", "", "", "", FALSE, FALSE, token)
DisconnectFrame == Frame("disconnect", "L67", "", "", "", FALSE, FALSE, token)

NoCall ==
    [op |-> "none", verb |-> "", action |-> "", params |-> "", auth |-> FALSE,
     retry |-> FALSE, tok0 |-> None]
NoEval == [kind |-> "none", type |-> "", msg |-> "", code |-> 0, env |-> NoEnv]
NoFix == [in |-> <<>>, out |-> <<>>]

Top(t) == stack[t][Len(stack[t])]
Running(t, fn, pcs) ==
    /\ stack[t] # <<>>
    /\ Top(t).fn = fn
    /\ Top(t).pc \in pcs
Pending(t) == ret[t].kind # "none"

\* the stack with its innermost frame removed / replaced / replaced and one pushed
\* (Replaced_Same: a statement leaves its frame where it was)
Popped(t) == SubSeq(stack[t], 1, Len(stack[t]) - 1)
Replaced_Same(t, f) == stack[t]
Replaced(t, f) == [stack[t] EXCEPT ![Len(stack[t])] = f]
Pushed(t, f, g) == Append(Replaced(t, f), g)

Init ==
    /\ token = None
    /\ stack = [t \in Threads |-> <<>>]
    /\ ret = [t \in Threads |-> NoRet]
    /\ log = [t \in Threads |-> <<>>]
    /\ call = [t \in Threads |-> NoCall]
    /\ issued = {}
    /\ evalIn = NoEnv
    /\ evalOut = NoEval
    /\ evalFn = "none"
    /\ fix = NoFix

(***************************************************************************)
(* Top-level calls                                                         *)
(***************************************************************************)
Begin(t, op, verb, action, params, auth, retry, frame) ==
    /\ stack[t] = <<>>
    /\ stack' = [stack EXCEPT ![t] = <<frame>>]
    /\ ret' = [ret EXCEPT ![t] = NoRet]
    /\ log' = [log EXCEPT ![t] = <<>>]
    /\ call' = [call EXCEPT ![t] =
                   [op |-> op, verb |-> verb, action |-> action, params |-> params,
                    auth |-> auth, retry |-> retry, tok0 |-> token]]
    /\ UNCHANGED <<token, issued, evalIn, evalOut, evalFn, fix>>

\* a catalog calls interface.api_call
ApiCall(t) ==
    \E tg \in Targets, auth \in BOOLEAN, retry \in BOOLEAN :
        Begin(t, "api_call", tg.verb, tg.action, tg.params, auth, retry,
              ApiFrame(tg.verb, tg.action, tg.params, auth, retry))

\* PyVLX.connect
Connect(t) == Begin(t, "connect", "", "", "", FALSE, FALSE, RefreshFrame)

\* PyVLX.disconnect
Disconnect(t) == Begin(t, "disconnect", "", "", "", FALSE, FALSE, DisconnectFrame)

(***************************************************************************)
(* api_call                                                                *)
(***************************************************************************)
\* the test of add_authorization_token is missing
NeedsLogin_NoAuthTest(add_authorization_token, tok) == ~Truthy(tok)

\* the test of self.token is inverted
NeedsLogin_Inverted(add_authorization_token, tok) ==
    add_authorization_token /\ Truthy(tok)

\* line 22: if add_authorization_token and not self.token
NeedsLogin(add_authorization_token, tok) == add_authorization_token /\ ~Truthy(tok)

\* line 28: if not retry and add_authorization_token
RetryEligible(retry, add_authorization_token) == ~retry /\ add_authorization_token

\* lines 22-23
ApiCallCheckToken(t) ==
    /\ Running(t, "api_call", {"L22"})
    /\ stack' = [stack EXCEPT ![t] =
                    IF NeedsLogin(Top(t).auth, token)
                    THEN Pushed(t, [Top(t) EXCEPT !.pc = "L23"], RefreshFrame)
                    ELSE Replaced(t, [Top(t) EXCEPT !.pc = "L26"])]
    /\ UNCHANGED <<token, ret, log, call, issued, evalIn, evalOut, evalFn, fix>>

\* a call made by api_call returns or raises: the refresh_token of line 23, the
\* refresh_token of line 29 (inside the except clause), the api_call of line 31
ApiCallResume(t) ==
    /\ Running(t, "api_call", {"L23", "L29", "L31"})
    /\ Pending(t)
    /\ IF Top(t).pc = "L31" \/ ret[t].kind = "exc"
       THEN /\ stack' = [stack EXCEPT ![t] = Popped(t)]
            /\ ret' = ret
       ELSE /\ stack' = [stack EXCEPT ![t] =
                            IF Top(t).pc = "L23"
                            THEN Replaced(t, [Top(t) EXCEPT !.pc = "L26"])
                            ELSE Pushed(t, [Top(t) EXCEPT !.pc = "L31"],
                                        ApiFrame(Top(t).verb, Top(t).action,
                                                 Top(t).params, Top(t).auth, TRUE))]
            /\ ret' = [ret EXCEPT ![t] = NoRet]
    /\ UNCHANGED <<token, log, call, issued, evalIn, evalOut, evalFn, fix>>

\* _api_call_impl, lines 36-38: the request is built with the token held now
ApiCallImpl(t) ==
    /\ Running(t, "api_call", {"L26"})
    /\ LET headers == create_headers(Top(t).auth, token)
       IN  IF headers.err
           THEN /\ stack' = [stack EXCEPT ![t] = Popped(t)]
                /\ ret' = [ret EXCEPT ![t] = Raise("TypeError", "", 0)]
           ELSE /\ stack' = [stack EXCEPT ![t] =
                                Replaced(t, [Top(t) EXCEPT !.pc = "L54", !.hdr = headers])]
                /\ ret' = ret
    /\ UNCHANGED <<token, log, call, issued, evalIn, evalOut, evalFn, fix>>

Exchange(f, o, r) ==
    [url |-> create_api_url(Host, f.verb), body |-> create_body(f.action, f.params),
     hdr |-> f.hdr, fail |-> o.fail, text |-> o.text, resp |-> r]

\* the token a login response carries, if it carries one
IssuedBy(f, r) ==
    IF f.action = "login" /\ r.kind = "value" /\ r.env.token.t # "absent"
    THEN {r.env.token}
    ELSE {}

\* _do_http_request (lines 41-55) and what api_call does with its outcome
\* (lines 26-33)
HttpRequestFrom(t, outcomes) ==
    /\ Running(t, "api_call", {"L54"})
    /\ \E o \in outcomes :
        LET r == do_http_request(o)
        IN  /\ log' = [log EXCEPT ![t] = Append(@, Exchange(Top(t), o, r))]
            /\ issued' = issued \cup IssuedBy(Top(t), r)
            /\ IF r.kind = "exc" /\ r.type = "InvalidToken"
                  /\ RetryEligible(Top(t).retry, Top(t).auth)
               THEN /\ stack' = [stack EXCEPT ![t] =
                                    Pushed(t, [Top(t) EXCEPT !.pc = "L29"], RefreshFrame)]
                    /\ ret' = ret
               ELSE /\ stack' = [stack EXCEPT ![t] = Popped(t)]
                    /\ ret' = [ret EXCEPT ![t] = r]
    /\ UNCHANGED <<token, call, evalIn, evalOut, evalFn, fix>>

HttpRequest(t) == HttpRequestFrom(t, GatewayOutcomes)

(***************************************************************************)
(* refresh_token                                                           *)
(***************************************************************************)
\* line 60: the login call, without authorization
RefreshTokenCall(t) ==
    /\ Running(t, "refresh_token", {"L60"})
    /\ stack' = [stack EXCEPT ![t] =
                    Pushed(t, [Top(t) EXCEPT !.pc = "L61"],
                           ApiFrame("auth", "login", "{password}", FALSE, FALSE))]
    /\ UNCHANGED <<token, ret, log, call, issued, evalIn, evalOut, evalFn, fix>>

\* self.token = json_response.get('token') ahead of the test
RefreshTokenStore_Get(tok, json_response) ==
    IF json_response.token.t = "absent" THEN None ELSE json_response.token

\* self.token = json_response['result']
RefreshTokenStore_Result(tok, json_response) ==
    IF json_response.token.t = "absent" THEN tok ELSE json_response.result

\* lines 61-63: self.token after the login call returned json_response
RefreshTokenStore(tok, json_response) ==
    IF json_response.token.t = "absent" THEN tok ELSE json_response.token

\* lines 61-63: what refresh_token ends in
RefreshTokenResult(json_response) ==
    IF json_response.token.t = "absent"
    THEN Raise("PyVLXException", MsgNoToken, 0)
    ELSE Unit

RefreshTokenResume(t) ==
    /\ Running(t, "refresh_token", {"L61"})
    /\ Pending(t)
    /\ stack' = [stack EXCEPT ![t] = Popped(t)]
    /\ IF ret[t].kind = "exc"
       THEN UNCHANGED <<token, ret>>
       ELSE /\ token' = RefreshTokenStore(token, ret[t].env)
            /\ ret' = [ret EXCEPT ![t] = RefreshTokenResult(ret[t].env)]
    /\ UNCHANGED <<log, call, issued, evalIn, evalOut, evalFn, fix>>

(***************************************************************************)
(* disconnect                                                              *)
(***************************************************************************)
\* line 67: the logout call, with authorization
DisconnectCall(t) ==
    /\ Running(t, "disconnect", {"L67"})
    /\ stack' = [stack EXCEPT ![t] =
                    Pushed(t, [Top(t) EXCEPT !.pc = "L68"],
                           ApiFrame("auth", "logout", "{}", TRUE, FALSE))]
    /\ UNCHANGED <<token, ret, log, call, issued, evalIn, evalOut, evalFn, fix>>

\* line 68 runs only when line 67 did not raise
DisconnectClears(r) == r.kind # "exc"

DisconnectResume(t) ==
    /\ Running(t, "disconnect", {"L68"})
    /\ Pending(t)
    /\ stack' = [stack EXCEPT ![t] = Popped(t)]
    /\ IF DisconnectClears(ret[t])
       THEN /\ token' = None
            /\ ret' = [ret EXCEPT ![t] = Unit]
       ELSE UNCHANGED <<token, ret>>
    /\ UNCHANGED <<log, call, issued, evalIn, evalOut, evalFn, fix>>

(***************************************************************************)
(* Specification: one thread calls the Interface, one call after another   *)
(***************************************************************************)
Step(t) ==
    \/ ApiCall(t)
    \/ Connect(t)
    \/ Disconnect(t)
    \/ ApiCallCheckToken(t)
    \/ ApiCallResume(t)
    \/ ApiCallImpl(t)
    \/ HttpRequest(t)
    \/ RefreshTokenCall(t)
    \/ RefreshTokenResume(t)
    \/ DisconnectCall(t)
    \/ DisconnectResume(t)

Next == \E t \in SeqThreads : Step(t)

Spec == Init /\ [][Next]_vars

\* the steps a call takes once it was made
Run(t) ==
    \/ ApiCallCheckToken(t)
    \/ ApiCallResume(t)
    \/ ApiCallImpl(t)
    \/ HttpRequest(t)
    \/ RefreshTokenCall(t)
    \/ RefreshTokenResume(t)
    \/ DisconnectCall(t)
    \/ DisconnectResume(t)

\* the values self.token can hold between calls: None, or what a login stored
StoredTokens ==
    {None} \cup UNION {IssuedBy([action |-> "login"], do_http_request(o)) : o \in GatewayOutcomes}

\* an interface between two calls, whatever its earlier calls left in self.token
InitLive ==
    /\ token \in StoredTokens
    /\ stack = [t \in Threads |-> <<>>]
    /\ ret = [t \in Threads |-> NoRet]
    /\ log = [t \in Threads |-> <<>>]
    /\ call = [t \in Threads |-> NoCall]
    /\ issued = {token} \ {None}
    /\ evalIn = NoEnv
    /\ evalOut = NoEval
    /\ evalFn = "none"
    /\ fix = NoFix

\* one call is made and runs
NextLive ==
    \E t \in SeqThreads :
        \/ call[t] = NoCall /\ ApiCall(t)
        \/ call[t] = NoCall /\ Connect(t)
        \/ call[t] = NoCall /\ Disconnect(t)
        \/ Run(t)

\* The interpreter runs the next statement of a call that was made, and every
\* POST ends (requests.post has timeout=10): a call that can step does step.
SpecLive == InitLive /\ [][NextLive]_vars /\ \A t \in SeqThreads : WF_vars(Run(t))

(***************************************************************************)
(* Specification: two threads on one Interface, an api_call and a          *)
(* disconnect, their statements interleaved                                 *)
(***************************************************************************)
\* what the gateway answers while the two calls run: a transport failure, a
\* plain success, an invalid-token envelope, a login issuing "t1"
ConcOutcomes ==
    {Outcome("requests.Timeout", <<>>),
     Outcome("none", <<"{", "result:true", "}">>),
     Outcome("none", <<"{", "errors:[403]", "}">>),
     Outcome("none", <<"{", "token:t1,result:true", "}">>)}

\* thread 1 makes one api_call, thread 2 one disconnect; between two
\* statements of one thread the other may run any number of its own
NextConc ==
    \E t \in Threads :
        \/ t = 1 /\ call[t] = NoCall /\ ApiCall(t)
        \/ t = 2 /\ call[t] = NoCall /\ Disconnect(t)
        \/ ApiCallCheckToken(t)
        \/ ApiCallResume(t)
        \/ ApiCallImpl(t)
        \/ HttpRequestFrom(t, ConcOutcomes)
        \/ RefreshTokenCall(t)
        \/ RefreshTokenResume(t)
        \/ DisconnectCall(t)
        \/ DisconnectResume(t)

SpecConc == InitLive /\ [][NextConc]_vars

(***************************************************************************)
(* Specification: evaluate_response applied to one envelope                *)
(***************************************************************************)
ErrorElems ==
    {EInt(402), EInt(403), EInt(405), EInt(406), EInt(999), EInt(0),
     EStr("x"), EBool(TRUE)}
ErrorsValues ==
    {JList(l) : l \in SeqsUpTo(ErrorElems, MaxErrors)}
        \cup {Absent, None, JStr("err"), JStr(""), JInt(5), JInt(0), JObj(1), JObj(0)}
ResultValues == {Absent, None, JBool(TRUE), JBool(FALSE), JInt(1), JStr("")}
EvalEnvelopes == {Envelope(r, e, Absent) : r \in ResultValues, e \in ErrorsValues}

InitEval ==
    /\ token = None
    /\ stack = [t \in Threads |-> <<>>]
    /\ ret = [t \in Threads |-> NoRet]
    /\ log = [t \in Threads |-> <<>>]
    /\ call = [t \in Threads |-> NoCall]
    /\ issued = {}
    /\ evalIn \in EvalEnvelopes
    /\ evalOut = NoEval
    /\ evalFn = "none"
    /\ fix = NoFix

\* a caller hands an envelope to Interface.evaluate_response
Evaluate ==
    /\ evalFn = "none"
    /\ evalOut' = evaluate_response(evalIn)
    /\ evalFn' = "evaluate_response"
    /\ UNCHANGED <<token, stack, ret, log, call, issued, evalIn, fix>>

\* a caller hands an envelope to Interface.evaluate_errors
EvaluateErrors ==
    /\ evalFn = "none"
    /\ evalOut' = evaluate_errors(evalIn)
    /\ evalFn' = "evaluate_errors"
    /\ UNCHANGED <<token, stack, ret, log, call, issued, evalIn, fix>>

NextEval == Evaluate \/ EvaluateErrors

SpecEval == InitEval /\ [][NextEval]_vars

(***************************************************************************)
(* Specification: fix_response applied to one text, and again to its result *)
(***************************************************************************)
FixChars == {"{", "}", ")"}
FixTexts == SeqsUpTo(FixChars, MaxText)

InitFix ==
    /\ token = None
    /\ stack = [t \in Threads |-> <<>>]
    /\ ret = [t \in Threads |-> NoRet]
    /\ log = [t \in Threads |-> <<>>]
    /\ call = [t \in Threads |-> NoCall]
    /\ issued = {}
    /\ evalIn = NoEnv
    /\ evalOut = NoEval
    /\ evalFn = "none"
    /\ fix \in {[in |-> x, out |-> <<>>] : x \in FixTexts}

\* a caller hands a text, or the text fix_response returned, to fix_response
FixResponse ==
    /\ Len(fix.out) < 2
    /\ fix' = [fix EXCEPT !.out =
                  Append(@, fix_response(IF @ = <<>> THEN fix.in ELSE @[Len(@)]))]
    /\ UNCHANGED <<token, stack, ret, log, call, issued, evalIn, evalOut, evalFn>>

SpecFix == InitFix /\ [][FixResponse]_vars

(***************************************************************************)
(* Vocabulary of the properties                                            *)
(***************************************************************************)
\* the top-level call of t has ended: its value or exception is in ret[t]
Done(t) == stack[t] = <<>> /\ call[t].op # "none"
Last(q) == q[Len(q)]
IsLogin(e) ==
    e.url = create_api_url(Host, "auth") /\ e.body = <<"login", "{password}">>
IsLogout(e) == e.url = create_api_url(Host, "auth") /\ e.body = <<"logout", "{}">>
\* e is an exchange of the request the top-level api_call of t was asked to make
IsTarget(t, e) ==
    /\ e.url = create_api_url(Host, call[t].verb)
    /\ e.body = create_body(call[t].action, call[t].params)
LoginCount(t) == Cardinality({i \in 1..Len(log[t]) : IsLogin(log[t][i])})
TargetCount(t) == Cardinality({i \in 1..Len(log[t]) : ~IsLogin(log[t][i])})
\* the envelope the gateway's answer to e stands for, if it is JSON
Answer(e) == json_loads(fix_response(e.text))
Answered(e) == e.fail = "none" /\ Answer(e).kind = "value"
\* the gateway answered e with an envelope whose first error is an invalid-token code
InvalidTokenResp(e) ==
    /\ Answered(e)
    /\ Answer(e).env.errors.t = "list"
    /\ Answer(e).env.errors.l # <<>>
    /\ Answer(e).env.errors.l[1].t = "int"
    /\ Answer(e).env.errors.l[1].n \in {402, 403, 405, 406}
ResultTrueResp(e) ==
    /\ Answered(e)
    /\ Answer(e).env.result = JBool(TRUE)
    /\ Answer(e).env.errors.t = "absent"
\* the login exchange e gave refresh_token a token field to store
LoginStored(e) == Answered(e) /\ Answer(e).env.token.t # "absent"
\* the top-level call of t is an authenticated first-attempt api_call
AuthCall(t) == call[t].op = "api_call" /\ call[t].auth /\ ~call[t].retry

(***************************************************************************)
(* Properties                                                              *)
(***************************************************************************)
\* C1: an authenticated api_call that starts with a held token and whose first
\* exchange is answered with an invalid-token envelope does one login exchange
\* and then sends the same request again with the new token; when the second
\* answer is result true the call returns it (two target exchanges, one login).
C1_RetryOnceRecovery ==
    \A t \in Threads :
        LET L == log[t]
        IN  (/\ Done(t)
             /\ AuthCall(t)
             /\ Truthy(call[t].tok0)
             /\ L # <<>>
             /\ InvalidTokenResp(L[1]))
            =>
            /\ IsTarget(t, L[1])
            /\ Len(L) >= 2
            /\ IsLogin(L[2])
            /\ LoginStored(L[2]) /\ Truthy(Answer(L[2]).env.token)
                   => /\ Len(L) = 3
                      /\ IsTarget(t, L[3])
                      /\ L[3].hdr.bearer
                      /\ L[3].hdr.tok = Answer(L[2]).env.token.s
            /\ Len(L) = 3 /\ IsTarget(t, L[3]) /\ ResultTrueResp(L[3])
                   => /\ ret[t] = Answer(L[3])
                      /\ LoginCount(t) = 1
                      /\ TargetCount(t) = 2

\* C2: an authenticated first-attempt api_call whose target exchanges were all
\* answered with an invalid-token envelope (and whose logins all stored a token)
\* ends by raising InvalidToken with that code, after exactly two target exchanges.
C2_PersistentFailureRaises ==
    \A t \in Threads :
        LET L == log[t]
        IN  (/\ Done(t)
             /\ AuthCall(t)
             /\ Truthy(call[t].tok0)
             /\ L # <<>>
             /\ \A i \in 1..Len(L) :
                    IF IsLogin(L[i])
                    THEN LoginStored(L[i]) /\ Truthy(Answer(L[i]).env.token)
                    ELSE InvalidTokenResp(L[i]))
            =>
            /\ TargetCount(t) = 2
            /\ ret[t] = Raise("InvalidToken", "", Answer(Last(L)).env.errors.l[1].n)

\* C3: one top-level call makes at most two exchanges that are not logins, a
\* login is only made while fewer than two of them have been made and never
\* right after another login, an api_call without authorization or marked as a
\* retry never enters the retry of lines 29-31, and the recursion of api_call
\* and refresh_token is never deeper than five frames.
C3_BoundedExchanges ==
    \A t \in Threads :
        LET L == log[t]
        IN  /\ TargetCount(t) <= 2
            /\ \A i \in 1..Len(L) :
                   IsLogin(L[i]) =>
                       /\ i > 1 => ~IsLogin(L[i - 1])
                       /\ Cardinality({j \in 1..(i - 1) : ~IsLogin(L[j])}) < 2
            /\ \A k \in 1..Len(stack[t]) :
                   (stack[t][k].fn = "api_call"
                        /\ (~stack[t][k].auth \/ stack[t][k].retry))
                       => stack[t][k].pc \notin {"L29", "L31"}
            /\ Len(stack[t]) <= 5

\* C3 witness: a lazy login, then a target exchange answered invalid-token, and
\* the call has ended
C3_Witness ==
    /\ Done(1)
    /\ AuthCall(1)
    /\ Len(log[1]) = 2
    /\ IsLogin(log[1][1])
    /\ InvalidTokenResp(log[1][2])

\* C4: when disconnect() has ended, however its logout exchange went, no token
\* is held.
C4_DisconnectClearsToken ==
    \A t \in Threads :
        LET L == log[t]
        IN  (/\ Done(t)
             /\ call[t].op = "disconnect"
             /\ L # <<>>
             /\ IsLogout(Last(L))
             /\ Last(L).fail # "none" \/ Answered(Last(L)))
            => token = None

\* C5: once refresh_token has ended on a login exchange that failed in
\* transport or was answered without a token field, it has raised
\* PyVLXException (no element token / the transport message) and the held
\* token is the one held before the call.
C5_RefreshFailureKeepsToken ==
    \A t \in Threads :
        LET L == log[t]
        IN  (/\ L # <<>>
             /\ IsLogin(Last(L))
             /\ \A k \in 1..Len(stack[t]) : stack[t][k].fn # "refresh_token"
             /\ \/ Last(L).fail # "none"
                \/ Answered(Last(L)) /\ Answer(Last(L)).env.token.t = "absent")
            =>
            /\ ret[t].kind = "exc"
            /\ ret[t].type = "PyVLXException"
            /\ IF Last(L).fail # "none"
               THEN ret[t].msg \in TransportMsgs
               ELSE ret[t].msg = MsgNoToken
            /\ token = call[t].tok0

\* C5 witness: connect() with a token held, answered without a token field
C5_Witness ==
    /\ Done(1)
    /\ call[1].op = "connect"
    /\ Truthy(call[1].tok0)
    /\ Len(log[1]) = 1
    /\ Answered(log[1][1])
    /\ Answer(log[1][1]).env.token.t = "absent"
    /\ ret[1] = Raise("PyVLXException", MsgNoToken, 0)
    /\ token = call[1].tok0

\* C6: an authenticated api_call that starts without a token does not go on to
\* build its request before a login exchange (auth, login, no Authorization
\* header) was made; a target exchange is only sent after a login whose answer
\* carried a token field; and when the login failed the call ends in an
\* exception with no target exchange sent.
C6_LazyLoginFirst ==
    \A t \in Threads :
        LET L == log[t]
        IN  (call[t].op = "api_call" /\ call[t].auth /\ ~Truthy(call[t].tok0))
            =>
            /\ (stack[t] = <<>> \/ stack[t][1].pc \notin {"L22", "L23"})
                   => /\ L # <<>>
                      /\ IsLogin(L[1])
                      /\ ~L[1].hdr.bearer
            /\ \A i \in 1..Len(L) :
                   ~IsLogin(L[i]) => i > 1 /\ IsLogin(L[1]) /\ LoginStored(L[1])
            /\ (Done(t) /\ L # <<>> /\ IsLogin(L[1]) /\ ~LoginStored(L[1]))
                   => Len(L) = 1 /\ ret[t].kind = "exc"

\* C6 witness: a login that stored a token, then the target exchange with it
C6_Witness ==
    /\ Done(1)
    /\ call[1].op = "api_call" /\ call[1].auth /\ ~Truthy(call[1].tok0)
    /\ Len(log[1]) = 2
    /\ IsLogin(log[1][1])
    /\ LoginStored(log[1][1])
    /\ IsTarget(1, log[1][2])
    /\ log[1][2].hdr.tok = Answer(log[1][1]).env.token.s
    /\ ret[1].kind = "value"

\* C7: an exchange that failed in transport is the last exchange of its
\* top-level call (no retry, no login after it), and what the call raises, up
\* to the caller, is the PyVLXException made for it.
C7_TransportFailureIsFinal ==
    \A t \in Threads :
        \A i \in 1..Len(log[t]) :
            log[t][i].fail # "none" =>
                /\ i = Len(log[t])
                /\ ret[t].kind = "exc"
                /\ ret[t].type = "PyVLXException"
                /\ ret[t].msg \in TransportMsgs
                /\ \A k \in 1..Len(stack[t]) :
                       stack[t][k].pc \in {"L23", "L29", "L31", "L61", "L68"}

\* C7 witness: an authenticated api_call whose target exchange timed out
C7_Witness ==
    /\ Done(1)
    /\ AuthCall(1)
    /\ Len(log[1]) = 1
    /\ IsTarget(1, log[1][1])
    /\ log[1][1].fail = "requests.Timeout"
    /\ ret[1] = Raise("PyVLXException", MsgOs, 0)

\* C8: an api_call whose last exchange was answered with a text that, repaired, is
\* not JSON ends in a PyVLXException that is not one of the transport errors.
C8_ParseFailureIsTyped ==
    \A t \in Threads :
        LET L == log[t]
        IN  (/\ Done(t)
             /\ call[t].op = "api_call"
             /\ L # <<>>
             /\ Last(L).fail = "none"
             /\ Answer(Last(L)).kind = "exc")
            =>
            /\ ret[t].kind = "exc"
            /\ ret[t].type = "PyVLXException"
            /\ ret[t].msg \notin TransportMsgs

\* C9: a top-level api_call whose target exchange was answered with a JSON
\* object returns exactly that envelope, whatever its result and errors, after
\* that one exchange.
C9_ReturnsEnvelopeUnevaluated ==
    \A t \in Threads :
        LET L == log[t]
        IN  (/\ Done(t)
             /\ call[t].op = "api_call"
             /\ L # <<>>
             /\ ~IsLogin(Last(L))
             /\ Answered(Last(L)))
            =>
            /\ ret[t] = Answer(Last(L))
            /\ TargetCount(t) = 1

\* C9 witness: the envelope {"errors": [999]} came back as the value of api_call
C9_Witness ==
    /\ Done(1)
    /\ call[1].op = "api_call"
    /\ ret[1] = Value(Envelope(Absent, JList(<<EInt(999)>>), Absent))

\* C10: for an envelope whose errors is a non-empty list starting with the
\* integer c, evaluate_response raises InvalidToken(c) when c is 402, 403, 405
\* or 406 and the unknown-error-code PyVLXException with c otherwise, whatever
\* the other codes and the result are.
C10_FirstCodeDecides ==
    (/\ evalOut # NoEval
     /\ evalIn.errors.t = "list"
     /\ evalIn.errors.l # <<>>
     /\ evalIn.errors.l[1].t = "int")
    =>
    evalOut = IF evalIn.errors.l[1].n \in {402, 403, 405, 406}
              THEN Raise("InvalidToken", "", evalIn.errors.l[1].n)
              ELSE Raise("PyVLXException", MsgUnknown, evalIn.errors.l[1].n)

\* C10 witness: [406, 999] with result true was classified as InvalidToken(406)
C10_Witness ==
    /\ evalIn = Envelope(JBool(TRUE), JList(<<EInt(406), EInt(999)>>), Absent)
    /\ evalOut = Raise("InvalidToken", "", 406)

\* what the result field alone makes of an envelope (lines 98-101)
ByResult(env) ==
    IF env.result.t = "absent"
    THEN Raise("PyVLXException", MsgNoResult, 0)
    ELSE IF env.result \in {JBool(TRUE), JInt(1)}
         THEN Unit
         ELSE Raise("PyVLXException", MsgFailed, 0)

\* C11: for an envelope whose errors is absent or the empty list,
\* evaluate_response succeeds exactly when result is present and truthy, fails
\* with the no-result PyVLXException when result is absent and with the
\* request-failed PyVLXException when result is present and falsy.
C11_ResultDecides ==
    (/\ evalFn = "evaluate_response"
     /\ evalIn.errors \in {Absent, JList(<<>>)})
    =>
    /\ evalOut = ByResult(evalIn)
    /\ evalOut = Unit <=> evalIn.result.t # "absent" /\ Truthy(evalIn.result)

\* C11 witness: an empty errors list beside result true was accepted
C11_Witness ==
    /\ evalFn = "evaluate_response"
    /\ evalIn = Envelope(JBool(TRUE), JList(<<>>), Absent)
    /\ evalOut = Unit

\* C14 as claimed: evaluate_response classifies by result alone every envelope
\* whose errors is present but not a non-empty list, and a non-empty list whose
\* first element is not an integer gives the cannot-evaluate PyVLXException, as
\* does evaluate_errors on anything that is not a non-empty list.
C14_OnlyNonEmptyListsAreErrors ==
    /\ (/\ evalFn = "evaluate_response"
        /\ evalIn.errors.t # "absent"
        /\ ~(evalIn.errors.t = "list" /\ evalIn.errors.l # <<>>))
       => evalOut = ByResult(evalIn)
    /\ (/\ evalFn # "none"
        /\ evalIn.errors.t = "list"
        /\ evalIn.errors.l # <<>>
        /\ evalIn.errors.l[1].t # "int")
       => evalOut = Raise("PyVLXException", MsgErrors, 0)
    /\ (/\ evalFn = "evaluate_errors"
        /\ ~(evalIn.errors.t = "list" /\ evalIn.errors.l # <<>>))
       => evalOut = Raise("PyVLXException", MsgErrors, 0)

\* an errors value Python takes as false: the empty list, null, "", 0, {}
FalsyErrors(v) == v \in {JList(<<>>), None, JStr(""), JInt(0), JObj(0)}

\* C14 as amended: evaluate_response classifies by result alone an envelope
\* whose errors is present and falsy; an errors that is truthy but not a list
\* gives the cannot-evaluate PyVLXException whatever result is; a non-empty list
\* gives it when its first element is neither an integer nor a boolean, and a
\* boolean first element is taken as the integer code 1 or 0; evaluate_errors
\* gives it on anything that is not a non-empty list.
C14_TruthyErrorsAreEvaluated ==
    /\ (evalFn = "evaluate_response" /\ FalsyErrors(evalIn.errors))
       => evalOut = ByResult(evalIn)
    /\ (/\ evalFn = "evaluate_response"
        /\ evalIn.errors.t \notin {"absent", "list"}
        /\ ~FalsyErrors(evalIn.errors))
       => evalOut = Raise("PyVLXException", MsgErrors, 0)
    /\ (/\ evalFn # "none"
        /\ evalIn.errors.t = "list"
        /\ evalIn.errors.l # <<>>
        /\ evalIn.errors.l[1].t \notin {"int", "bool"})
       => evalOut = Raise("PyVLXException", MsgErrors, 0)
    /\ (/\ evalFn # "none"
        /\ evalIn.errors.t = "list"
        /\ evalIn.errors.l # <<>>
        /\ evalIn.errors.l[1].t = "bool")
       => evalOut = Raise("PyVLXException", MsgUnknown, evalIn.errors.l[1].n)
    /\ (/\ evalFn = "evaluate_errors"
        /\ ~(evalIn.errors.t = "list" /\ evalIn.errors.l # <<>>))
       => evalOut = Raise("PyVLXException", MsgErrors, 0)

\* C14 witness: errors "err" beside result true was refused
C14_Witness ==
    /\ evalFn = "evaluate_response"
    /\ evalIn = Envelope(JBool(TRUE), JStr("err"), Absent)
    /\ evalOut = Raise("PyVLXException", MsgErrors, 0)

\* C12: fix_response returns the text from its first "{" on, and the text
\* itself when it starts with "{" or holds none; so the result starts with "{"
\* or is the input, and fix_response of the result is the result.
C12_FixResponseCutsAtFirstBrace ==
    /\ Len(fix.out) >= 1 =>
           /\ IF \E k \in 1..Len(fix.in) : fix.in[k] = "{"
              THEN \E k \in 1..Len(fix.in) :
                       /\ fix.in[k] = "{"
                       /\ \A j \in 1..(k - 1) : fix.in[j] # "{"
                       /\ fix.out[1] = SubSeq(fix.in, k, Len(fix.in))
              ELSE fix.out[1] = fix.in
           /\ (fix.in # <<>> /\ fix.in[1] = "{") => fix.out[1] = fix.in
           /\ \/ fix.out[1] = fix.in
              \/ fix.out[1] # <<>> /\ fix.out[1][1] = "{"
    /\ Len(fix.out) = 2 => fix.out[2] = fix.out[1]

\* C12 witness: garbage in front of the first of two "{" was cut off, once
C12_Witness ==
    /\ fix.in = <<")", "{", ")", "{">>
    /\ fix.out = <<<<"{", ")", "{">>, <<"{", ")", "{">>>>

\* C13: every call of api_call, connect (refresh_token) and disconnect that
\* was made comes to its end, with a value or one exception, whatever the
\* gateway answers, and api_call and refresh_token never nest deeper than
\* disconnect -> api_call -> refresh_token -> api_call.
C13_EveryCallEnds ==
    \A t \in SeqThreads :
        /\ [](Len(stack[t]) <= 4)
        /\ (stack[t] # <<>>) ~> (stack[t] = <<>> /\ ret[t].kind # "none")

\* C13 witness: a disconnect made without a token has ended after its lazy
\* login and its logout were both answered invalid-token
C13_Witness ==
    /\ Done(1)
    /\ call[1].op = "disconnect"
    /\ Len(log[1]) = 2
    /\ LoginStored(log[1][1])
    /\ InvalidTokenResp(log[1][2])

\* whether the request of exchange e of t's call was to be authenticated: the
\* login of refresh_token is not (line 60), the logout of disconnect is (line
\* 67), the request of an api_call is as its caller said
AuthRequired(t, e) ==
    IF IsLogin(e) THEN FALSE
    ELSE IF IsLogout(e) THEN TRUE
    ELSE call[t].auth

\* self.token when the request of the i-th exchange of t's call was built: what
\* the login exchange just before it stored, else what the call started with
HeldAt(t, i) ==
    IF i > 1 /\ IsLogin(log[t][i - 1]) /\ LoginStored(log[t][i - 1])
    THEN Answer(log[t][i - 1]).env.token
    ELSE call[t].tok0

\* C15: every request sent carries Authorization: Bearer exactly when it was to
\* be authenticated, with the token held when it was built (the one a login of
\* the same call just stored, if there was one); the login request of
\* refresh_token carries none, and its api_call makes no further call: no
\* login at line 23, no retry at lines 29-31.
C15_AuthorizationAttachment ==
    \A t \in SeqThreads :
        /\ \A i \in 1..Len(log[t]) :
            LET e == log[t][i]
            IN  /\ e.hdr.ct = "application/json"
                /\ e.hdr.bearer <=> AuthRequired(t, e)
                /\ e.hdr.bearer =>
                       /\ HeldAt(t, i).t = "str"
                       /\ e.hdr.tok = HeldAt(t, i).s
        /\ \A k \in 1..Len(stack[t]) :
            LET f == stack[t][k]
            IN  /\ f.fn = "api_call" /\ f.pc = "L54" =>
                       /\ f.hdr.bearer <=> f.auth
                       /\ f.auth => token.t = "str" /\ f.hdr.tok = token.s
                /\ f.fn = "api_call" /\ f.action = "login" =>
                       /\ ~f.auth
                       /\ f.pc \in {"L22", "L26", "L54"}
                       /\ k = Len(stack[t])
                       /\ f.pc = "L54" => ~f.hdr.bearer

\* C15 witness: an authenticated api_call that started without a token has sent
\* its login without Authorization and then its request with the token that
\* login stored
C15_Witness ==
    /\ Done(1)
    /\ AuthCall(1)
    /\ call[1].tok0 = None
    /\ Len(log[1]) = 2
    /\ IsLogin(log[1][1]) /\ ~log[1][1].hdr.bearer
    /\ log[1][2].hdr.bearer /\ log[1][2].hdr.tok = "t1"

\* the step sets self.token at line 63: refresh_token of thread t got the login
\* envelope and ends without raising
RefreshSets(t) ==
    /\ Running(t, "refresh_token", {"L61"})
    /\ ret[t].kind = "value"
    /\ ret'[t] = Unit
    /\ token' = ret[t].env.token

\* the step clears self.token at line 68: the logout call of disconnect of
\* thread t returned
DisconnectSetsNone(t) ==
    /\ Running(t, "disconnect", {"L68"})
    /\ ret[t].kind = "value"
    /\ token' = None

\* C16: in every state, in the middle of a call and after a call failed
\* included, self.token is None or the token value of a login response
\* received so far; only a refresh_token that ends without raising (setting
\* it) and a disconnect (clearing it) change it; an api_call made with
\* add_authorization_token=False ends with the token it started with.
C16_TokenIntegrity ==
    [][/\ token' = None \/ token' \in issued'
       /\ token' # token =>
              \E t \in SeqThreads : RefreshSets(t) \/ DisconnectSetsNone(t)
       /\ \A t \in SeqThreads :
              stack'[t] = <<>> /\ call'[t].op = "api_call" /\ ~call'[t].auth =>
                  token' = call'[t].tok0]_vars

\* C16 witness: an authenticated api_call that started without a token failed
\* in transport after its login stored "t1", and "t1" is held
C16_Witness ==
    /\ Done(1)
    /\ AuthCall(1)
    /\ call[1].tok0 = None
    /\ Len(log[1]) = 2
    /\ log[1][2].fail # "none"
    /\ ret[1].kind = "exc"
    /\ token = JStr("t1")

\* C17: with an api_call (authentication required) and a disconnect running
\* on the same Interface, an api_call that passed line 22 with a token held (it
\* made no login) builds its request with that token: it does not end in the
\* TypeError of 'Bearer ' + None.
C17_ConcurrentDisconnectIsHarmless ==
    \A t \in Threads :
        Done(t) /\ call[t].op = "api_call" /\ call[t].auth /\ LoginCount(t) = 0 =>
            ~(ret[t].kind = "exc" /\ ret[t].type = "TypeError")

\* C18: whenever connect (refresh_token) ends without raising, self.token is
\* a non-empty string, whatever login response the gateway sent; and an
\* authenticated api_call whose lazy login ended without raising goes on to
\* send its request with that token, making no second login.
C18_RefreshSuccessHoldsToken ==
    \A t \in SeqThreads :
        /\ Done(t) /\ call[t].op = "connect" /\ ret[t] = Unit =>
               token.t = "str" /\ Truthy(token)
        /\ Done(t) /\ AuthCall(t) /\ call[t].tok0 = None
           /\ Len(log[t]) >= 1 /\ LoginStored(log[t][1]) =>
               /\ Len(log[t]) = 2
               /\ IsTarget(t, log[t][2])
               /\ log[t][2].hdr.bearer
               /\ log[t][2].hdr.tok # ""

\* C19: a disconnect made while no token is held sends a login exchange, then
\* the logout exchange with the token that login issued, and ends with no
\* token held (the logout exchange having failed in transport or been
\* answered with JSON); a disconnect made while a token is held sends the
\* logout exchange alone, no login.
C19_DisconnectExchanges ==
    \A t \in SeqThreads :
        Done(t) /\ call[t].op = "disconnect" =>
            IF Truthy(call[t].tok0)
            THEN /\ Len(log[t]) = 1
                 /\ IsLogout(log[t][1])
            ELSE /\ Len(log[t]) >= 1
                 /\ IsLogin(log[t][1])
                 /\ Len(log[t]) <= 2
                 /\ Len(log[t]) = 2 =>
                        /\ IsLogout(log[t][2])
                        /\ log[t][2].hdr.bearer
                        /\ JStr(log[t][2].hdr.tok) = Answer(log[t][1]).env.token
                        /\ log[t][2].fail # "none" \/ Answered(log[t][2]) =>
                               token = None

====
